---- MODULE Spec2Model ----
(***************************************************************************)
(* A model of the recipe service's request handlers (backend/api/views.py), *)
(* its schema constraints (backend/recipes/migrations) and the load_tags    *)
(* management command.                                                      *)
(*                                                                          *)
(* Tables whose rows carry their own primary key (Favorite, ShoppingCart,   *)
(* Subscription, RecipeIngredient) are bags: two rows with the same columns *)
(* are two copies, so a duplicate row is a state the model can express.     *)
(***************************************************************************)
EXTENDS Integers, Sequences, FiniteSets, Bags, TLC

\* ------------------------------------------------------------- bounds
MaxUser == 2
MaxRecipe == 2
\* Rows the three membership tables hold together.
MaxRows == 2
\* RecipeIngredient and ShoppingCart rows the shopping-list runs hold together.
MaxListRows == 5
\* RecipeIngredient rows of one recipe, and the largest amount and cooking
\* time a request carries.
MaxItems == 2
MaxAmount == 2
MaxTime == 1
\* Requests served at once.
MaxWorker == 2
\* Values a Tag column takes, and entries of tags.json.
MaxTagValue == 2
MaxFile == 2

UserIds == 1..MaxUser
RecipeIds == 1..MaxRecipe

\* ------------------------------------------------------------- HTTP
HTTP_200_OK == 200
HTTP_201_CREATED == 201
HTTP_204_NO_CONTENT == 204
HTTP_400_BAD_REQUEST == 400
HTTP_404_NOT_FOUND == 404
HTTP_500_INTERNAL_SERVER_ERROR == 500

\* The three localized 'errors' messages of views.py, by what they say.
ERR_ALREADY_ADDED == "Etot retsept uzhe dobavlen"
ERR_NOT_ADDED == "Chto mertvo umeret ne mozhet"
ERR_NOT_SUBSCRIBED == "Vy ne byli podpisany na etogo avtora"
\* A serializer's ValidationError: a 400 whose body is not {'errors': ...}.
ERR_VALIDATION == "ValidationError"

VARIABLES
    User,              \* ids of the User rows
    Recipe,            \* ids of the Recipe rows
    nextRecipe,         \* the Recipe id sequence: ids are never reused
    cooking_time,       \* Recipe.cooking_time, by recipe id
    RecipeIngredient,  \* bag of RecipeIngredient rows [recipe, ingredient, amount]
    Favorite,           \* bag of Favorite rows <<user, recipe>>
    ShoppingCart,       \* bag of ShoppingCart rows <<user, recipe>>
    Subscription,       \* bag of Subscription rows <<user, author>>
    last,               \* the last request served and its response
    Tag,                \* the Tag rows [name, color, slug]
    tag_unique,         \* the Tag columns that are unique
    tags_json,          \* the tags.json file: its entries, or absent
    worker,             \* the requests being served, each at a step of its view
    watch,              \* history: the membership a client follows, and
    lastOk,             \*   its last 201 or 204 (0: none yet) and
    before              \*   the two recipe tables before the last request

db == <<User, Recipe, nextRecipe, cooking_time, RecipeIngredient,
        Favorite, ShoppingCart, Subscription>>

tagvars == <<Tag, tag_unique, tags_json>>

history == <<watch, lastOk, before>>

vars == <<db, last, tagvars, worker, history>>

Response(status, errors, data) ==
    [status |-> status, errors |-> errors, data |-> data]

Served(op, method, user, id, response) ==
    [op |-> op, method |-> method, user |-> user, id |-> id,
     status |-> response.status, errors |-> response.errors,
     data |-> response.data]

NoRequest == Served("none", "", 0, 0, Response(0, "", EmptyBag))

\* ------------------------------------------------------------- schema
\* The Ingredient table: name and measurement unit, by id.
Ingredient ==
    <<[name |-> "salt", measurement_unit |-> "g"],
      [name |-> "salt", measurement_unit |-> "kg"],
      [name |-> "sugar", measurement_unit |-> "g"]>>

IngredientIds == DOMAIN Ingredient

NumIngredients == Len(Ingredient)

\* MinValueValidator(1, ...) of Recipe.cooking_time and RecipeIngredient.amount.
MIN_COOKING_TIME == 1
MIN_AMOUNT == 1

\* SubscriptionSerializer.is_valid: a subscription that exists is refused.
SubscriptionSerializer_is_valid(user, author, rows) == ~BagIn(<<user, author>>, rows)

\* ------------------------------------------------------------- ORM
One(row) == SetToBag({row})

\* The tables without their unique pair.
unique_pair_undeclared(rows, row) == TRUE

\* The unique (user, recipe) / (user, author) pair of the three tables.
unique_pair(rows, row) == ~BagIn(row, rows)

\* Model.objects.create: the INSERT fails with IntegrityError when a foreign
\* key names no row or the pair is already there, and then inserts nothing.
objects_create(rows, row, fk_ok) ==
    IF fk_ok /\ unique_pair(rows, row)
    THEN [raised |-> "", rows |-> rows (+) One(row)]
    ELSE [raised |-> "IntegrityError", rows |-> rows]

\* Model.objects.get: exactly one row, or an exception.
objects_get(rows, row) ==
    CASE CopiesIn(row, rows) = 0 -> "ObjectDoesNotExist"
      [] CopiesIn(row, rows) = 1 -> ""
      [] OTHER -> "MultipleObjectsReturned"

\* A delete that never reaches the database.
instance_delete_unsaved(rows, row) == rows

\* instance.delete(): the one row fetched goes.
instance_delete(rows, row) == rows (-) One(row)

get_object_or_404(objects, id) == id \in objects

\* ------------------------------------------------------------- views.py
\* add_recipe written with get_or_create: a pair already there is no error.
add_recipe_get_or_create(user, recipe, rows, fk_ok) ==
    LET c == objects_create(rows, <<user, recipe>>, fk_ok) IN
    [rows |-> c.rows, response |-> Response(HTTP_201_CREATED, "", EmptyBag)]

add_recipe(user, recipe, rows, fk_ok) ==
    LET c == objects_create(rows, <<user, recipe>>, fk_ok) IN
    IF c.raised = "IntegrityError"
    THEN [rows |-> c.rows,
          response |-> Response(HTTP_400_BAD_REQUEST, ERR_ALREADY_ADDED, EmptyBag)]
    ELSE [rows |-> c.rows,
          response |-> Response(HTTP_201_CREATED, "", EmptyBag)]

\* delete_recipe written with filter(...).delete(): no row is no error.
delete_recipe_filter(user, recipe, rows) ==
    [rows |-> rows (-) One(<<user, recipe>>),
     response |-> Response(HTTP_204_NO_CONTENT, "", EmptyBag)]

delete_recipe(user, recipe, rows) ==
    LET g == objects_get(rows, <<user, recipe>>) IN
    CASE g = "ObjectDoesNotExist" ->
            [rows |-> rows,
             response |-> Response(HTTP_400_BAD_REQUEST, ERR_NOT_ADDED, EmptyBag)]
      [] g = "MultipleObjectsReturned" ->
            [rows |-> rows,
             response |-> Response(HTTP_500_INTERNAL_SERVER_ERROR, "", EmptyBag)]
      [] OTHER ->
            [rows |-> instance_delete(rows, <<user, recipe>>),
             response |-> Response(HTTP_204_NO_CONTENT, "", EmptyBag)]

\* The view without its get_object_or_404: the id goes to the table as it is.
recipe_action_unchecked(user, pk, method, rows) ==
    IF method = "POST"
    THEN add_recipe(user, pk, rows, pk \in Recipe /\ user \in User)
    ELSE delete_recipe(user, pk, rows)

\* favorite and shopping_cart differ only in the table they are given.
recipe_action(user, pk, method, rows) ==
    IF ~get_object_or_404(Recipe, pk)
    THEN [rows |-> rows, response |-> Response(HTTP_404_NOT_FOUND, "", EmptyBag)]
    ELSE IF method = "POST"
         THEN add_recipe(user, pk, rows, pk \in Recipe /\ user \in User)
         ELSE delete_recipe(user, pk, rows)

favorite(user, pk, method) == recipe_action(user, pk, method, Favorite)

shopping_cart(user, pk, method) == recipe_action(user, pk, method, ShoppingCart)

\* subscribe without serializer.is_valid: the INSERT meets the pair itself.
subscribe_unvalidated(user, id, method) ==
    IF ~get_object_or_404(User, id)
    THEN [rows |-> Subscription,
          response |-> Response(HTTP_404_NOT_FOUND, "", EmptyBag)]
    ELSE IF method = "POST"
         THEN LET c == objects_create(Subscription, <<user, id>>,
                                      id \in User /\ user \in User) IN
              IF c.raised = "IntegrityError"
              THEN [rows |-> c.rows,
                    response |-> Response(HTTP_500_INTERNAL_SERVER_ERROR, "", EmptyBag)]
              ELSE [rows |-> c.rows,
                    response |-> Response(HTTP_201_CREATED, "", EmptyBag)]
         ELSE LET g == objects_get(Subscription, <<user, id>>) IN
              IF g = "ObjectDoesNotExist"
              THEN [rows |-> Subscription,
                    response |-> Response(HTTP_400_BAD_REQUEST, ERR_NOT_SUBSCRIBED, EmptyBag)]
              ELSE [rows |-> instance_delete(Subscription, <<user, id>>),
                    response |-> Response(HTTP_204_NO_CONTENT, "", EmptyBag)]

subscribe(user, id, method) ==
    IF ~get_object_or_404(User, id)
    THEN [rows |-> Subscription,
          response |-> Response(HTTP_404_NOT_FOUND, "", EmptyBag)]
    ELSE IF method = "POST"
         THEN IF ~SubscriptionSerializer_is_valid(user, id, Subscription)
              THEN [rows |-> Subscription,
                    response |-> Response(HTTP_400_BAD_REQUEST, ERR_VALIDATION, EmptyBag)]
              ELSE LET c == objects_create(Subscription, <<user, id>>,
                                           id \in User /\ user \in User) IN
                   \* no except clause: an IntegrityError leaves the view
                   IF c.raised = "IntegrityError"
                   THEN [rows |-> c.rows,
                         response |-> Response(HTTP_500_INTERNAL_SERVER_ERROR, "", EmptyBag)]
                   ELSE [rows |-> c.rows,
                         response |-> Response(HTTP_201_CREATED, "", EmptyBag)]
         ELSE LET g == objects_get(Subscription, <<user, id>>) IN
              CASE g = "ObjectDoesNotExist" ->
                      [rows |-> Subscription,
                       response |-> Response(HTTP_400_BAD_REQUEST, ERR_NOT_SUBSCRIBED, EmptyBag)]
                [] g = "MultipleObjectsReturned" ->
                      [rows |-> Subscription,
                       response |-> Response(HTTP_500_INTERNAL_SERVER_ERROR, "", EmptyBag)]
                [] OTHER ->
                      [rows |-> instance_delete(Subscription, <<user, id>>),
                       response |-> Response(HTTP_204_NO_CONTENT, "", EmptyBag)]

\* ------------------------------------------------------------- shopping list
RECURSIVE Sum(_, _)
\* The sum of f[x] over the x of S.
Sum(f, S) ==
    IF S = {} THEN 0
    ELSE LET x == CHOOSE y \in S : TRUE IN f[x] + Sum(f, S \ {x})

\* The filter without its user: the rows of every cart.
filter_cart_any(user) ==
    [ri \in BagToSet(RecipeIngredient) |->
        CopiesIn(ri, RecipeIngredient)
            * Sum([row \in BagToSet(ShoppingCart) |->
                    IF row[2] = ri.recipe THEN CopiesIn(row, ShoppingCart) ELSE 0],
                  BagToSet(ShoppingCart))]

\* RecipeIngredient.objects.filter(recipe__shoppingcart__user=user): the join
\* yields a RecipeIngredient row once per ShoppingCart row of its recipe.
filter_cart_user(user) ==
    [ri \in BagToSet(RecipeIngredient) |->
        CopiesIn(ri, RecipeIngredient) * CopiesIn(<<user, ri.recipe>>, ShoppingCart)]

\* .values(INGREDIENT, UNIT): the columns the rows are grouped by.
values(ri) ==
    [name |-> Ingredient[ri.ingredient].name,
     measurement_unit |-> Ingredient[ri.ingredient].measurement_unit]

\* .annotate(amount=Sum(AMOUNT)): one item per group of the joined rows.
annotate_Sum(joined) ==
    LET hit == {ri \in DOMAIN joined : joined[ri] > 0}
        groups == {values(ri) : ri \in hit}
        amount(g) == Sum([ri \in hit |->
                            IF values(ri) = g THEN joined[ri] * ri.amount ELSE 0], hit)
    IN SetToBag({[name |-> g.name, measurement_unit |-> g.measurement_unit,
                  amount |-> amount(g)] : g \in groups})

\* make_doc: one drawn line per item, '- <name>' and '<amount> <unit>'.
make_doc(ingredients) ==
    LET line(item) == <<item.name, item.amount, item.measurement_unit>>
        lines == {line(item) : item \in BagToSet(ingredients)}
    IN [l \in lines |->
            Sum([item \in BagToSet(ingredients) |->
                    IF line(item) = l THEN CopiesIn(item, ingredients) ELSE 0],
                BagToSet(ingredients))]

download_shopping_cart(user) ==
    IF ~(\E row \in BagToSet(ShoppingCart) : row[1] = user)
    THEN Response(HTTP_400_BAD_REQUEST, "", EmptyBag)
    ELSE Response(HTTP_200_OK, "", make_doc(annotate_Sum(filter_cart_user(user))))

\* ------------------------------------------------------------- recipes
\* The field without its validator: PositiveIntegerField alone takes a 0.
PositiveIntegerField(limit, value) == value >= 0

\* django.core.validators.MinValueValidator(limit): the value passes when it
\* is not below the limit.
MinValueValidator(limit, value) == value >= limit

\* The validators of Recipe.cooking_time and RecipeIngredient.amount.
cooking_time_valid(value) == MinValueValidator(MIN_COOKING_TIME, value)

amount_valid(value) == MinValueValidator(MIN_AMOUNT, value)

\* RecipeCreateSerializer.is_valid: the model fields' validators.
RecipeCreateSerializer_is_valid(time, items) ==
    /\ cooking_time_valid(time)
    /\ \A k \in DOMAIN items : amount_valid(items[k].amount)

RECURSIVE ingredient_rows(_, _)
\* The RecipeIngredient rows of a new recipe, one per item sent.
ingredient_rows(recipe, items) ==
    IF items = <<>> THEN EmptyBag
    ELSE One([recipe |-> recipe, ingredient |-> Head(items).ingredient,
              amount |-> Head(items).amount])
            (+) ingredient_rows(recipe, Tail(items))

BagFilter(B, Keep(_)) == [x \in {y \in DOMAIN B : Keep(y)} |-> B[x]]

\* RecipeIngredient.recipe with on_delete=DO_NOTHING.
recipe_ingredient_do_nothing(rows, recipe) == rows

\* on_delete=CASCADE of RecipeIngredient.recipe.
recipe_ingredient_on_delete(rows, recipe) ==
    LET keep(row) == row.recipe # recipe IN BagFilter(rows, keep)

\* on_delete=CASCADE of the user, recipe and author keys of the membership rows.
membership_on_delete(rows, column, id) ==
    LET keep(row) == row[column] # id IN BagFilter(rows, keep)

\* ------------------------------------------------------------- requests
Rows == BagCardinality(Favorite) + BagCardinality(ShoppingCart)
            + BagCardinality(Subscription)

\* The membership tables hold at most MaxRows rows.
Capacity == Rows' <= MaxRows

\* RecipeIngredient and ShoppingCart hold at most MaxListRows rows.
ListCapacity ==
    BagCardinality(RecipeIngredient') + BagCardinality(ShoppingCart') <= MaxListRows

Methods == {"POST", "DELETE"}

FavoriteRequest(user, pk, method) ==
    /\ user \in User
    /\ LET res == favorite(user, pk, method) IN
        /\ Favorite' = res.rows
        /\ last' = Served("favorite", method, user, pk, res.response)
    /\ UNCHANGED <<User, Recipe, nextRecipe, cooking_time, RecipeIngredient,
                   ShoppingCart, Subscription>>
    /\ Capacity

ShoppingCartRequest(user, pk, method) ==
    /\ user \in User
    /\ LET res == shopping_cart(user, pk, method) IN
        /\ ShoppingCart' = res.rows
        /\ last' = Served("shopping_cart", method, user, pk, res.response)
    /\ UNCHANGED <<User, Recipe, nextRecipe, cooking_time, RecipeIngredient,
                   Favorite, Subscription>>
    /\ Capacity

SubscribeRequest(user, id, method) ==
    /\ user \in User
    /\ LET res == subscribe(user, id, method) IN
        /\ Subscription' = res.rows
        /\ last' = Served("subscribe", method, user, id, res.response)
    /\ UNCHANGED <<User, Recipe, nextRecipe, cooking_time, RecipeIngredient,
                   Favorite, ShoppingCart>>
    /\ Capacity

DownloadRequest(user) ==
    /\ user \in User
    /\ last' = Served("download_shopping_cart", "GET", user, 0,
                      download_shopping_cart(user))
    /\ UNCHANGED db

\* RecipeViewSet.create: the serializer validates, perform_create saves.
RecipeCreate(user, time, items) ==
    /\ user \in User
    /\ IF ~RecipeCreateSerializer_is_valid(time, items)
       THEN /\ last' = Served("create", "POST", user, 0,
                              Response(HTTP_400_BAD_REQUEST, ERR_VALIDATION, EmptyBag))
            /\ UNCHANGED db
       ELSE /\ nextRecipe <= MaxRecipe
            /\ Recipe' = Recipe \cup {nextRecipe}
            /\ nextRecipe' = nextRecipe + 1
            /\ cooking_time' = [r \in Recipe' |->
                                    IF r = nextRecipe THEN time ELSE cooking_time[r]]
            /\ RecipeIngredient' =
                    RecipeIngredient (+) ingredient_rows(nextRecipe, items)
            /\ last' = Served("create", "POST", user, nextRecipe,
                              Response(HTTP_201_CREATED, "", EmptyBag))
            /\ UNCHANGED <<User, Favorite, ShoppingCart, Subscription>>
            /\ ListCapacity

\* RecipeViewSet.destroy: the recipe goes, and the rows that refer to it.
RecipeDestroy(user, pk) ==
    /\ user \in User
    /\ IF ~get_object_or_404(Recipe, pk)
       THEN /\ last' = Served("destroy", "DELETE", user, pk,
                              Response(HTTP_404_NOT_FOUND, "", EmptyBag))
            /\ UNCHANGED db
       ELSE /\ Recipe' = Recipe \ {pk}
            /\ cooking_time' = [r \in Recipe' |-> cooking_time[r]]
            /\ RecipeIngredient' = recipe_ingredient_on_delete(RecipeIngredient, pk)
            /\ Favorite' = membership_on_delete(Favorite, 2, pk)
            /\ ShoppingCart' = membership_on_delete(ShoppingCart, 2, pk)
            /\ last' = Served("destroy", "DELETE", user, pk,
                              Response(HTTP_204_NO_CONTENT, "", EmptyBag))
            /\ UNCHANGED <<User, nextRecipe, Subscription>>

\* UserViewSet.destroy (djoser): the user goes, and the rows that refer to it.
UserDestroy(id) ==
    /\ id \in User
    /\ User' = User \ {id}
    /\ Favorite' = membership_on_delete(Favorite, 1, id)
    /\ ShoppingCart' = membership_on_delete(ShoppingCart, 1, id)
    /\ Subscription' = membership_on_delete(membership_on_delete(Subscription, 1, id), 2, id)
    /\ last' = Served("user_destroy", "DELETE", id, id,
                      Response(HTTP_204_NO_CONTENT, "", EmptyBag))
    /\ UNCHANGED <<Recipe, nextRecipe, cooking_time, RecipeIngredient>>

\* ------------------------------------------------------------- Spec
\* The service with its users registered and MaxRecipe recipes published:
\* recipe r holds one unit of ingredient 1 and one of another ingredient.
SeedItems(r) ==
    <<[ingredient |-> 1, amount |-> 1],
      [ingredient |-> 1 + (r % NumIngredients), amount |-> 1]>>

RECURSIVE SeedRows(_)
SeedRows(n) ==
    IF n = 0 THEN EmptyBag ELSE ingredient_rows(n, SeedItems(n)) (+) SeedRows(n - 1)

Published ==
    /\ User = UserIds
    /\ Recipe = RecipeIds
    /\ nextRecipe = MaxRecipe + 1
    /\ cooking_time = [r \in RecipeIds |-> 1]
    /\ RecipeIngredient = SeedRows(MaxRecipe)
    /\ Favorite = EmptyBag
    /\ ShoppingCart = EmptyBag
    /\ Subscription = EmptyBag
    /\ last = NoRequest

NoTags ==
    /\ Tag = {}
    /\ tag_unique = {"slug"}
    /\ tags_json = [isfile |-> FALSE, reader |-> <<>>]

Workers == 1..MaxWorker

Idle == [pc |-> "idle", op |-> "none", method |-> "", user |-> 0, id |-> 0]

NoWorker == worker = [w \in Workers |-> Idle]

WatchKeys == {"favorite", "shopping_cart"} \X UserIds \X RecipeIds

NoHistory ==
    /\ watch = <<"favorite", 1, 1>>
    /\ lastOk = 0
    /\ before = <<EmptyBag, EmptyBag>>

Init == Published /\ NoTags /\ NoWorker /\ NoHistory

\* Requests are served one at a time, and nothing else happens.
OneAtATime == UNCHANGED <<tagvars, worker, history>>

\* Requests name ids up to one past the last row: that id names nothing.
Next ==
    \/ \E u \in UserIds, pk \in 1..(MaxRecipe + 1), m \in Methods :
            FavoriteRequest(u, pk, m) /\ OneAtATime
    \/ \E u \in UserIds, pk \in 1..(MaxRecipe + 1), m \in Methods :
            ShoppingCartRequest(u, pk, m) /\ OneAtATime
    \/ \E u \in UserIds, id \in 1..(MaxUser + 1), m \in Methods :
            SubscribeRequest(u, id, m) /\ OneAtATime

Spec == Init /\ [][Next]_vars

\* ------------------------------------------------------------- SpecCascade
\* The same service with rows added, shopping lists downloaded, and recipes
\* and users removed.
NextCascade ==
    \/ \E u \in UserIds, pk \in RecipeIds : FavoriteRequest(u, pk, "POST")
            /\ OneAtATime
    \/ \E u \in UserIds, pk \in RecipeIds : ShoppingCartRequest(u, pk, "POST")
            /\ OneAtATime
    \/ \E u \in UserIds, id \in UserIds : SubscribeRequest(u, id, "POST")
            /\ OneAtATime
    \/ \E u \in UserIds : DownloadRequest(u) /\ OneAtATime
    \/ \E u \in UserIds, pk \in RecipeIds : RecipeDestroy(u, pk) /\ OneAtATime
    \/ \E id \in UserIds : UserDestroy(id) /\ OneAtATime

SpecCascade == Init /\ [][NextCascade]_vars

\* ------------------------------------------------------------- SpecList
\* The service with its users registered and no recipe yet: recipes are
\* created, put into carts and removed, and shopping lists downloaded.
ItemInputs ==
    UNION {[1..n -> [ingredient : IngredientIds, amount : 0..MaxAmount]] : n \in 1..MaxItems}

InitList ==
    /\ User = UserIds
    /\ Recipe = {}
    /\ nextRecipe = 1
    /\ cooking_time = <<>>
    /\ RecipeIngredient = EmptyBag
    /\ Favorite = EmptyBag
    /\ ShoppingCart = EmptyBag
    /\ Subscription = EmptyBag
    /\ last = NoRequest
    /\ NoTags /\ NoWorker /\ NoHistory

NextList ==
    \/ \E u \in UserIds, t \in 0..MaxTime, items \in ItemInputs :
            RecipeCreate(u, t, items) /\ OneAtATime
    \/ \E u \in UserIds, pk \in RecipeIds, m \in Methods :
            ShoppingCartRequest(u, pk, m) /\ ListCapacity /\ OneAtATime
    \/ \E u \in UserIds : DownloadRequest(u) /\ OneAtATime
    \/ \E u \in UserIds, pk \in RecipeIds : RecipeDestroy(u, pk) /\ OneAtATime

SpecList == InitList /\ [][NextList]_vars

\* ------------------------------------------------------------- SpecToggle
\* One client follows one (user, recipe) membership through the requests.
Follow ==
    /\ watch' = watch
    /\ lastOk' = IF <<last'.op, last'.user, last'.id>> = watch
                    /\ last'.status \in {HTTP_201_CREATED, HTTP_204_NO_CONTENT}
                 THEN last'.status ELSE lastOk
    /\ before' = <<Favorite, ShoppingCart>>

Followed == Follow /\ UNCHANGED <<tagvars, worker>>

InitToggle ==
    /\ Published /\ NoTags /\ NoWorker
    /\ watch \in WatchKeys
    /\ lastOk = 0
    /\ before = <<EmptyBag, EmptyBag>>

NextToggle ==
    \/ \E u \in UserIds, pk \in RecipeIds, m \in Methods :
            FavoriteRequest(u, pk, m) /\ Followed
    \/ \E u \in UserIds, pk \in RecipeIds, m \in Methods :
            ShoppingCartRequest(u, pk, m) /\ Followed
    \/ \E u \in UserIds, pk \in RecipeIds : RecipeDestroy(u, pk) /\ Followed

SpecToggle == InitToggle /\ [][NextToggle]_vars

\* ------------------------------------------------------------- SpecConc
\* Requests served at once: each worker runs its view statement by statement,
\* and the statements of different workers interleave.
Working(w, pc) == [worker EXCEPT ![w].pc = pc]

\* The response leaves; of the request, its view and method are recorded.
Answer(w, response) ==
    /\ last' = Served(worker[w].op, worker[w].method, 0, 0, response)
    /\ worker' = [worker EXCEPT ![w] = Idle]

TableIs(op, rows) ==
    /\ Favorite' = IF op = "favorite" THEN rows ELSE Favorite
    /\ ShoppingCart' = IF op = "shopping_cart" THEN rows ELSE ShoppingCart
    /\ Subscription' = IF op = "subscribe" THEN rows ELSE Subscription

Table(op) ==
    CASE op = "favorite" -> Favorite
      [] op = "shopping_cart" -> ShoppingCart
      [] op = "subscribe" -> Subscription

Parents(op) == IF op = "subscribe" THEN User ELSE Recipe

Receive(w, op, method, user, id) ==
    /\ worker[w].pc = "idle"
    /\ user \in User
    /\ worker' = [worker EXCEPT ![w] =
                    [pc |-> "lookup", op |-> op, method |-> method,
                     user |-> user, id |-> id]]
    /\ UNCHANGED <<db, last>>

\* get_object_or_404
Lookup(w) ==
    /\ worker[w].pc = "lookup"
    /\ IF ~get_object_or_404(Parents(worker[w].op), worker[w].id)
       THEN Answer(w, Response(HTTP_404_NOT_FOUND, "", EmptyBag))
       ELSE /\ worker' = Working(w,
                    IF worker[w].method = "DELETE" THEN "get"
                    ELSE IF worker[w].op = "subscribe" THEN "is_valid" ELSE "create")
            /\ last' = last
    /\ UNCHANGED db

\* serializer.is_valid(raise_exception=True)
IsValid(w) ==
    /\ worker[w].pc = "is_valid"
    /\ IF SubscriptionSerializer_is_valid(worker[w].user, worker[w].id, Subscription)
       THEN worker' = Working(w, "create") /\ last' = last
       ELSE Answer(w, Response(HTTP_400_BAD_REQUEST, ERR_VALIDATION, EmptyBag))
    /\ UNCHANGED db

\* model.objects.create, and what the view makes of an IntegrityError
Create(w) ==
    /\ worker[w].pc = "create"
    /\ LET op == worker[w].op
           fk_ok == worker[w].id \in Parents(op) /\ worker[w].user \in User
           res == add_recipe(worker[w].user, worker[w].id, Table(op), fk_ok)
       IN /\ TableIs(op, res.rows)
          /\ Answer(w, IF op = "subscribe"
                            /\ res.response.status = HTTP_400_BAD_REQUEST
                       THEN Response(HTTP_500_INTERNAL_SERVER_ERROR, "", EmptyBag)
                       ELSE res.response)
    /\ UNCHANGED <<User, Recipe, nextRecipe, cooking_time, RecipeIngredient>>
    /\ Capacity

\* model.objects.get
Get(w) ==
    /\ worker[w].pc = "get"
    /\ LET op == worker[w].op
           g == objects_get(Table(op), <<worker[w].user, worker[w].id>>)
       IN CASE g = "ObjectDoesNotExist" ->
                  Answer(w, Response(HTTP_400_BAD_REQUEST,
                                     IF op = "subscribe" THEN ERR_NOT_SUBSCRIBED
                                     ELSE ERR_NOT_ADDED, EmptyBag))
            [] g = "MultipleObjectsReturned" ->
                  Answer(w, Response(HTTP_500_INTERNAL_SERVER_ERROR, "", EmptyBag))
            [] OTHER -> worker' = Working(w, "delete") /\ last' = last
    /\ UNCHANGED db

\* instance.delete(): the row this worker fetched goes, if it is still there;
\* the other workers that fetched the same row now hold a row that is gone.
Delete(w) ==
    /\ worker[w].pc \in {"delete", "delete_gone"}
    /\ LET op == worker[w].op
           row == <<worker[w].user, worker[w].id>>
           same(v) == /\ v # w /\ worker[v].pc = "delete" /\ worker[v].op = op
                      /\ <<worker[v].user, worker[v].id>> = row
       IN /\ TableIs(op, IF worker[w].pc = "delete"
                         THEN instance_delete(Table(op), row) ELSE Table(op))
          /\ last' = Served(op, "DELETE", 0, 0,
                            Response(HTTP_204_NO_CONTENT, "", EmptyBag))
          /\ worker' = [v \in Workers |->
                          IF v = w THEN Idle
                          ELSE IF worker[w].pc = "delete" /\ same(v)
                               THEN [worker[v] EXCEPT !.pc = "delete_gone"]
                               ELSE worker[v]]
    /\ UNCHANGED <<User, Recipe, nextRecipe, cooking_time, RecipeIngredient>>

NextConc ==
    \/ \E w \in Workers, op \in {"favorite", "shopping_cart"},
          m \in Methods, u \in UserIds, id \in RecipeIds :
            Receive(w, op, m, u, id) /\ UNCHANGED <<tagvars, history>>
    \/ \E w \in Workers, m \in Methods, u \in UserIds, id \in UserIds :
            Receive(w, "subscribe", m, u, id) /\ UNCHANGED <<tagvars, history>>
    \/ \E w \in Workers : Lookup(w) /\ UNCHANGED <<tagvars, history>>
    \/ \E w \in Workers : IsValid(w) /\ UNCHANGED <<tagvars, history>>
    \/ \E w \in Workers : Create(w) /\ UNCHANGED <<tagvars, history>>
    \/ \E w \in Workers : Get(w) /\ UNCHANGED <<tagvars, history>>
    \/ \E w \in Workers : Delete(w) /\ UNCHANGED <<tagvars, history>>

SpecConc == Init /\ [][NextConc]_vars

\* ------------------------------------------------------------- SpecTags
TagValues == 1..MaxTagValue

TagRows == [name : TagValues, color : TagValues, slug : TagValues]

TagColumns == {"name", "color", "slug"}

\* An entry conflicts with a row that has its value in a unique column.
conflicts(entry, rows) ==
    \E t \in rows : \E column \in tag_unique : entry[column] = t[column]

\* bulk_create without ignore_conflicts: one conflict fails the whole INSERT.
bulk_create_strict(rows, entries) ==
    IF \E k \in DOMAIN entries :
            conflicts(entries[k], rows \cup {entries[j] : j \in 1..(k - 1)})
    THEN rows
    ELSE rows \cup {entries[k] : k \in DOMAIN entries}

RECURSIVE bulk_create(_, _)
\* Tag.objects.bulk_create(..., ignore_conflicts=True): the entries go in one
\* by one, and one that conflicts with a row already there is skipped.
bulk_create(rows, entries) ==
    IF entries = <<>> THEN rows
    ELSE bulk_create(IF conflicts(Head(entries), rows) THEN rows
                     ELSE rows \cup {Head(entries)},
                     Tail(entries))

TagFiles == UNION {[1..n -> TagRows] : n \in 0..MaxFile}

\* Command.handle
load_tags ==
    /\ IF ~tags_json.isfile
       THEN /\ last' = Served("load_tags", "", 0, 0, Response(1, "CommandError", EmptyBag))
            /\ Tag' = Tag
       ELSE /\ Tag' = bulk_create(Tag, tags_json.reader)
            /\ last' = Served("load_tags", "", 0, 0, Response(0, "", EmptyBag))
    /\ UNCHANGED <<db, tag_unique, tags_json>>

\* TagViewSet.create: the serializer refuses a value taken in a unique column.
TagCreate(row) ==
    /\ IF conflicts(row, Tag)
       THEN /\ Tag' = Tag
            /\ last' = Served("tag_create", "POST", 0, 0,
                              Response(HTTP_400_BAD_REQUEST, ERR_VALIDATION, EmptyBag))
       ELSE /\ Tag' = Tag \cup {row}
            /\ last' = Served("tag_create", "POST", 0, 0,
                              Response(HTTP_201_CREATED, "", EmptyBag))
    /\ UNCHANGED <<db, tag_unique, tags_json>>

\* TagViewSet.destroy
TagDestroy(row) ==
    /\ row \in Tag
    /\ Tag' = Tag \ {row}
    /\ last' = Served("tag_destroy", "DELETE", 0, 0,
                      Response(HTTP_204_NO_CONTENT, "", EmptyBag))
    /\ UNCHANGED <<db, tag_unique, tags_json>>

InitTags ==
    /\ Published /\ NoWorker /\ NoHistory
    /\ Tag = {}
    /\ tag_unique \in SUBSET TagColumns \ {{}}
    /\ tags_json \in {[isfile |-> FALSE, reader |-> <<>>]}
                        \cup {[isfile |-> TRUE, reader |-> f] : f \in TagFiles}

NextTags ==
    \/ load_tags /\ UNCHANGED <<worker, history>>
    \/ \E row \in TagRows : TagCreate(row) /\ UNCHANGED <<worker, history>>
    \/ \E row \in TagRows : TagDestroy(row) /\ UNCHANGED <<worker, history>>

SpecTags == InitTags /\ [][NextTags]_vars

\* ------------------------------------------------------------- claims
\* The target a membership request names: a recipe, or an author.
TargetExists(op, id) == IF op = "subscribe" THEN id \in User ELSE id \in Recipe

Memberships == <<Favorite, ShoppingCart, Subscription>>

\* The step serves this request.
Serves(op, method, user, id) ==
    /\ last'.op = op
    /\ last'.method = method
    /\ last'.user = user
    /\ last'.id = id

\* C1: a POST to favorite or shopping_cart for a pair already in the table
\* answers 400 with the 'errors' message and leaves Favorite and ShoppingCart
\* as they were.
C1_DuplicateAddRefused ==
    [][\A op \in {"favorite", "shopping_cart"}, u \in UserIds, r \in RecipeIds :
        (Serves(op, "POST", u, r) /\ r \in Recipe /\ BagIn(<<u, r>>, Table(op)))
        => /\ last'.status = HTTP_400_BAD_REQUEST
           /\ last'.errors = ERR_ALREADY_ADDED
           /\ Favorite' = Favorite
           /\ ShoppingCart' = ShoppingCart]_vars

C1_Witness ==
    /\ last.op = "favorite" /\ last.method = "POST"
    /\ last.status = HTTP_400_BAD_REQUEST
    /\ BagIn(<<last.user, last.id>>, Favorite)
    /\ ShoppingCart # EmptyBag

\* C2: a DELETE for an existing target answers 400 with an 'errors' message
\* and changes no table when the pair is absent, and answers 204 and removes
\* that one pair, and nothing else, when it is present.
C2_DeleteByMembership ==
    [][\A op \in {"favorite", "shopping_cart", "subscribe"},
          u \in UserIds, t \in 1..(MaxUser + MaxRecipe) :
        (Serves(op, "DELETE", u, t) /\ TargetExists(op, t))
        => IF ~BagIn(<<u, t>>, Table(op))
           THEN /\ last'.status = HTTP_400_BAD_REQUEST
                /\ last'.errors =
                      (IF op = "subscribe" THEN ERR_NOT_SUBSCRIBED ELSE ERR_NOT_ADDED)
                /\ Memberships' = Memberships
           ELSE /\ last'.status = HTTP_204_NO_CONTENT
                /\ Table(op)' (+) One(<<u, t>>) = Table(op)
                /\ \A other \in {"favorite", "shopping_cart", "subscribe"} \ {op} :
                        Table(other)' = Table(other)]_vars

C2_Witness ==
    /\ last.op = "favorite" /\ last.method = "DELETE"
    /\ last.status = HTTP_204_NO_CONTENT
    /\ ~BagIn(<<last.user, last.id>>, Favorite)
    /\ Favorite # EmptyBag

\* C3: a POST or DELETE whose id names no recipe (no user, for subscribe)
\* answers 404 whatever the tables hold, and changes none of them.
C3_MissingTargetIs404 ==
    [][\A op \in {"favorite", "shopping_cart", "subscribe"}, m \in Methods,
          u \in UserIds, t \in 1..(MaxUser + MaxRecipe + 1) :
        (Serves(op, m, u, t) /\ ~TargetExists(op, t))
        => /\ last'.status = HTTP_404_NOT_FOUND
           /\ Memberships' = Memberships]_vars

C3_Witness ==
    /\ last.op = "shopping_cart" /\ last.method = "POST"
    /\ last.id \notin Recipe
    /\ last.status = HTTP_404_NOT_FOUND
    /\ \E r \in Recipe : BagIn(<<last.user, r>>, ShoppingCart)

\* C6: a POST to subscribe for a pair already in Subscription answers 400,
\* not an unhandled error, and leaves Subscription as it was, one row a pair.
C6_DuplicateSubscribeRefused ==
    [][\A u \in UserIds, a \in UserIds :
        (Serves("subscribe", "POST", u, a) /\ a \in User
            /\ BagIn(<<u, a>>, Subscription))
        => /\ last'.status = HTTP_400_BAD_REQUEST
           /\ Subscription' = Subscription
           /\ CopiesIn(<<u, a>>, Subscription') = 1]_vars

C6_Witness ==
    /\ last.op = "subscribe" /\ last.method = "POST"
    /\ last.status = HTTP_400_BAD_REQUEST
    /\ BagIn(<<last.user, last.id>>, Subscription)

\* The amount of ingredient i that the recipes among rs in user u's cart
\* hold, row by row.
CartAmount(u, i, rs) ==
    Sum([ri \in BagToSet(RecipeIngredient) |->
            IF ri.ingredient = i /\ ri.recipe \in rs
                /\ BagIn(<<u, ri.recipe>>, ShoppingCart)
            THEN ri.amount * CopiesIn(ri, RecipeIngredient) ELSE 0],
        BagToSet(RecipeIngredient))

InCart(u, i) ==
    \E ri \in BagToSet(RecipeIngredient) :
        ri.ingredient = i /\ BagIn(<<u, ri.recipe>>, ShoppingCart)

\* The lines of a shopping list that name ingredient i.
LinesOf(doc, i) ==
    {l \in DOMAIN doc : l[1] = Ingredient[i].name
                        /\ l[3] = Ingredient[i].measurement_unit}

Downloaded == last.op = "download_shopping_cart"

\* C7: every Favorite, ShoppingCart and Subscription row names an existing
\* user and an existing recipe or author, every RecipeIngredient row an
\* existing recipe, and a shopping list holds the amounts of existing recipes
\* only: a removed recipe or user leaves no row behind.
C7_NoRowOutlivesItsParent ==
    /\ \A row \in BagToSet(Favorite) \cup BagToSet(ShoppingCart) :
            row[1] \in User /\ row[2] \in Recipe
    /\ \A row \in BagToSet(Subscription) : row[1] \in User /\ row[2] \in User
    /\ \A ri \in BagToSet(RecipeIngredient) : ri.recipe \in Recipe
    /\ (Downloaded /\ last.status = HTTP_200_OK)
        => \A i \in IngredientIds : \A l \in LinesOf(last.data, i) :
                l[2] = CartAmount(last.user, i, Recipe)

C7_Witness ==
    /\ Downloaded /\ last.status = HTTP_200_OK
    /\ Recipe # RecipeIds /\ User # UserIds
    /\ RecipeIngredient # EmptyBag

C8_AmountsAndTimesPositive ==
    /\ \A ri \in BagToSet(RecipeIngredient) : ri.amount \in Nat /\ ri.amount >= 1
    /\ \A r \in Recipe : cooking_time[r] \in Nat /\ cooking_time[r] >= 1
    /\ Downloaded => \A l \in DOMAIN last.data : l[2] >= 1

C8_Witness ==
    /\ last.op = "create" /\ last.status = HTTP_400_BAD_REQUEST
    /\ RecipeIngredient # EmptyBag
    /\ ShoppingCart # EmptyBag

\* C9: for an existing recipe, a POST to favorite or shopping_cart answers
\* 201 exactly when the pair is absent and a DELETE 204 exactly when it is
\* present; the 201s and 204s of one pair alternate, a 201 first; and a 201
\* followed by a 204 for the same pair leaves the table as it was before.
C9_AddRemoveAlternate ==
    [][\A op \in {"favorite", "shopping_cart"}, u \in UserIds, r \in RecipeIds :
        /\ (Serves(op, "POST", u, r) /\ r \in Recipe)
            => (last'.status = HTTP_201_CREATED <=> ~BagIn(<<u, r>>, Table(op)))
        /\ (Serves(op, "DELETE", u, r) /\ r \in Recipe)
            => (last'.status = HTTP_204_NO_CONTENT <=> BagIn(<<u, r>>, Table(op)))
        /\ (<<op, u, r>> = watch /\ last'.op = op /\ last'.user = u /\ last'.id = r)
            => /\ last'.status = HTTP_201_CREATED
                    => lastOk \in {0, HTTP_204_NO_CONTENT}
               /\ last'.status = HTTP_204_NO_CONTENT
                    => lastOk = HTTP_201_CREATED
        /\ (/\ last.op = op /\ last.method = "POST" /\ last.user = u /\ last.id = r
            /\ last.status = HTTP_201_CREATED
            /\ Serves(op, "DELETE", u, r) /\ last'.status = HTTP_204_NO_CONTENT)
            => Table(op)' = (IF op = "favorite" THEN before[1] ELSE before[2])]_vars

C9_Witness ==
    /\ <<last.op, last.user, last.id>> = watch
    /\ last.method = "DELETE"
    /\ last.status = HTTP_204_NO_CONTENT
    /\ lastOk = HTTP_204_NO_CONTENT
    /\ BagIn(<<last.user, last.id>>, (IF last.op = "favorite" THEN before[1] ELSE before[2]))
    /\ Table(last.op) # EmptyBag

\* C4: Favorite, ShoppingCart and Subscription hold at most one row for a
\* pair, however the statements of requests served at once interleave.
C4_OneRowPerPair ==
    \A op \in {"favorite", "shopping_cart", "subscribe"} :
        \A row \in BagToSet(Table(op)) : CopiesIn(row, Table(op)) = 1

\* Two requests are past their checks and about to insert the same pair, or
\* one is about to insert a pair that another has inserted meanwhile.
C4_Witness ==
    /\ \E v \in Workers, w \in Workers :
        /\ v # w
        /\ worker[v].pc = "create" /\ worker[w].pc = "create"
        /\ worker[v].op = worker[w].op
        /\ worker[v].user = worker[w].user /\ worker[v].id = worker[w].id
    /\ Rows > 0

====
